---------------------------- MODULE Spec2Model ----------------------------
(***************************************************************************)
(* A model of csv_parser.py of ig-discord: the filename metadata           *)
(* extractor (parse_filename), the CSV parser and record builder           *)
(* (parse_instagram_csv), the relationship classifier                      *)
(* (analyze_follow_status) and the set reconciler (find_non_followers,     *)
(* find_fans).                                                             *)
(*                                                                         *)
(* Python strings are TLA+ strings; a character is a string of length 1.   *)
(* Python lists are objects on a heap (a function from object ids to       *)
(* sequences), so that "the same list" and "an equal list" differ.         *)
(* None is the empty tuple and a present value v is <<v>>.                 *)
(***************************************************************************)
EXTENDS Integers, Sequences, FiniteSets, TLC

VARIABLES
    heap,               \* object id -> list of records (the lists alive)
    followers_records,  \* reconciler: id of the list bound to followers_records
    following_records,  \* reconciler: id of the list bound to following_records
    non_followers,      \* reconciler: the last find_non_followers call, or None
    fans,               \* reconciler: the last find_fans call, or None
    records,            \* classifier: id of the list given to analyze_follow_status
    buckets,            \* classifier: the dict analyze_follow_status returned, or None
    filename,           \* the filename argument (None when not supplied)
    file_meta,          \* parse_filename: the dict returned, or None
    content,            \* parse_instagram_csv: the content argument
    parsed              \* parse_instagram_csv: None, a raised exception or the returned pair

vars == <<heap, followers_records, following_records, non_followers, fans,
          records, buckets, filename, file_meta, content, parsed>>

None == <<>>
Some(v) == <<v>>

\* how a call ends: it returns a value, or an exception leaves it
Return(v) == [raised |-> None, value |-> Some(v)]
Raise(e) == [raised |-> Some(e), value |-> None]

-----------------------------------------------------------------------------
(* Strings                                                                 *)

LowerAlphabet == "abcdefghijklmnopqrstuvwxyz"
UpperAlphabet == "ABCDEFGHIJKLMNOPQRSTUVWXYZ"
Digits == "0123456789"

CharAt(s, i) == SubSeq(s, i, i)

\* the character-to-character map taking from[i] to to[i]
CharMap(from, to) ==
    [c \in {CharAt(from, i) : i \in 1..Len(from)} |->
        CharAt(to, CHOOSE i \in 1..Len(from) : CharAt(from, i) = c)]

ToLower == CharMap(UpperAlphabet, LowerAlphabet)
ToUpper == CharMap(LowerAlphabet, UpperAlphabet)

RECURSIVE MapString(_, _)
MapString(m, s) ==
    IF s = "" THEN ""
    ELSE LET c == CharAt(s, 1)
         IN  (IF c \in DOMAIN m THEN m[c] ELSE c) \o MapString(m, Tail(s))

\* str.lower() and str.upper() on the ASCII strings of the model
str_lower(s) == MapString(ToLower, s)
str_upper(s) == MapString(ToUpper, s)

\* Python's `sub in s`
Contains(s, sub) ==
    \E i \in 1..(Len(s) - Len(sub) + 1) : SubSeq(s, i, i + Len(sub) - 1) = sub

DigitChars == {CharAt(Digits, i) : i \in 1..Len(Digits)}

IsDigit(c) == c \in DigitChars

-----------------------------------------------------------------------------
(* Heap                                                                    *)

\* the id a newly allocated list gets: one no live object has
FreshId(h) == CHOOSE i \in 1..(Cardinality(DOMAIN h) + 1) : i \notin DOMAIN h

\* the heap with the objects outside `live` collected
Collect(h, live) == [i \in (DOMAIN h) \cap live |-> h[i]]

-----------------------------------------------------------------------------
(* Records                                                                 *)

\* a record as parse_instagram_csv builds it: six string fields
MkRecord(uid, uname, fby) ==
    [user_id |-> uid, username |-> uname, fullname |-> "",
     followed_by_you |-> fby, is_verified |-> "", profile_url |-> ""]

\* the lists of at most n elements of S
ListsOf(S, n) == UNION {[1..k -> S] : k \in 0..n}

\* the longest list given to the reconciler
MaxLen == 2

\* the records the reconciler is run on: two case variants of one username
\* under different user_ids, another username under the user_id of the first,
\* a third username, and an empty username
ReconRecords ==
    {MkRecord("1", "alice", "YES"), MkRecord("2", "ALICE", ""),
     MkRecord("3", "bob", "NO"), MkRecord("1", "carol", ""),
     MkRecord("5", "", "NO")}

-----------------------------------------------------------------------------
(* Set reconciler: find_non_followers, find_fans                           *)

\* {r['username'].lower() for r in xs}
UsernameSet(xs) == {str_lower(xs[i].username) : i \in 1..Len(xs)}

\* find_non_followers comparing usernames as written (the .lower() calls lost)
find_non_followers_CaseSensitive(followers, following) ==
    LET follower_usernames == {followers[i].username : i \in 1..Len(followers)}
    IN  SelectSeq(following, LAMBDA r : r.username \notin follower_usernames)

\* find_non_followers keyed on user_id instead of username
find_non_followers_ByUserId(followers, following) ==
    LET follower_ids == {followers[i].user_id : i \in 1..Len(followers)}
    IN  SelectSeq(following, LAMBDA r : r.user_id \notin follower_ids)

\* find_fans with the .lower() lost where the set of following usernames is built
find_fans_CaseSensitive(followers, following) ==
    LET following_usernames == {following[i].username : i \in 1..Len(following)}
    IN  SelectSeq(followers, LAMBDA r : str_lower(r.username) \notin following_usernames)

find_non_followers(followers, following) ==
    LET follower_usernames == UsernameSet(followers)
    IN  SelectSeq(following,
                  LAMBDA r : str_lower(r.username) \notin follower_usernames)

find_fans(followers, following) ==
    LET following_usernames == UsernameSet(following)
    IN  SelectSeq(followers,
                  LAMBDA r : str_lower(r.username) \notin following_usernames)

\* the id of the list a call returned (0 when there is no call)
RetOf(call) == IF call = None THEN 0 ELSE call[1].ret

\* find_non_followers filtering following_records in place and returning it
NonFollowersObject_InPlace(h, a, b) == [id |-> b, list |-> find_non_followers(h[a], h[b])]

\* the list object the comprehension of find_non_followers builds
NonFollowersObject(h, a, b) == [id |-> FreshId(h), list |-> find_non_followers(h[a], h[b])]

\* the list object the comprehension of find_fans builds
FansObject(h, a, b) == [id |-> FreshId(h), list |-> find_fans(h[a], h[b])]

\* a caller's find_non_followers(a, b), the two lists in either order; the
\* list a previous call returned is dropped by the caller
CallFindNonFollowers(a, b) ==
    LET h0 == Collect(heap, {followers_records, following_records, RetOf(fans)})
        obj == NonFollowersObject(h0, a, b)
    IN  /\ followers_records # 0
        /\ heap' = (obj.id :> obj.list) @@ h0
        /\ non_followers' = Some([followers |-> a, following |-> b, ret |-> obj.id])
        /\ UNCHANGED <<followers_records, following_records, fans, records,
                       buckets, filename, file_meta, content, parsed>>

\* a caller's find_fans(a, b)
CallFindFans(a, b) ==
    LET h0 == Collect(heap, {followers_records, following_records,
                             RetOf(non_followers)})
        obj == FansObject(h0, a, b)
    IN  /\ followers_records # 0
        /\ heap' = (obj.id :> obj.list) @@ h0
        /\ fans' = Some([followers |-> a, following |-> b, ret |-> obj.id])
        /\ UNCHANGED <<followers_records, following_records, non_followers,
                       records, buckets, filename, file_meta, content, parsed>>

\* the two lists of the caller
InputLists == {followers_records, following_records}

InitReconcile ==
    /\ \E F \in ListsOf(ReconRecords, MaxLen), G \in ListsOf(ReconRecords, MaxLen) :
           heap = (1 :> F) @@ (2 :> G)
    /\ followers_records = 1
    /\ following_records = 2
    /\ non_followers = None
    /\ fans = None
    /\ records = 0
    /\ buckets = None
    /\ filename = None
    /\ file_meta = None
    /\ content = None
    /\ parsed = None

NextReconcile ==
    \/ \E a \in InputLists : \E b \in InputLists \ {a} : CallFindNonFollowers(a, b)
    \/ CallFindFans(followers_records, following_records)

SpecReconcile == InitReconcile /\ [][NextReconcile]_vars

-----------------------------------------------------------------------------
(* Claims about the set reconciler                                         *)

\* the positions of xs whose username, lowercased, is the lowercased username
\* of no element of others
Unmatched(xs, others) ==
    {i \in 1..Len(xs) :
        \A j \in 1..Len(others) :
            str_lower(xs[i].username) # str_lower(others[j].username)}

\* the k-th smallest element of the set of positions P
KthOf(P, k) == CHOOSE i \in P : Cardinality({j \in P : j <= i}) = k

\* res is xs restricted to the positions P, in order, duplicates kept
IsRestriction(res, xs, P) ==
    /\ Len(res) = Cardinality(P)
    /\ \A k \in 1..Len(res) : res[k] = xs[KthOf(P, k)]

\* res is a subsequence of xs
IsSubsequence(res, xs) ==
    \E f \in [1..Len(res) -> 1..Len(xs)] :
        /\ \A k \in 1..Len(res) : res[k] = xs[f[k]]
        /\ \A k \in 1..Len(res) : \A l \in 1..Len(res) : k < l => f[k] < f[l]

Usernames(xs) == [i \in 1..Len(xs) |-> xs[i].username]

\* C1: find_non_followers(followers, following) returns exactly the records of
\* following, in order and with duplicates, whose lowercased username is the
\* lowercased username of no record of followers; only username decides, and a
\* following record with an empty username is dropped once followers holds one.
C1_NonFollowersExact ==
    non_followers # None =>
        LET c == non_followers[1]
            A == heap[c.followers]
            B == heap[c.following]
            R == heap[c.ret]
        IN  /\ IsRestriction(R, B, Unmatched(B, A))
            /\ (\E j \in 1..Len(A) : A[j].username = "") =>
                   \A k \in 1..Len(R) : R[k].username # ""

\* find_non_followers(followers, following) has dropped the empty username
\* that followers holds too and kept the one record followers does not hold
C1_Witness ==
    /\ non_followers # None
    /\ non_followers[1].followers = followers_records
    /\ Usernames(heap[followers_records]) = <<"", "alice">>
    /\ Usernames(heap[following_records]) = <<"", "carol">>
    /\ Usernames(heap[non_followers[1].ret]) = <<"carol">>

\* C2: find_fans(followers, following) returns exactly the records of followers,
\* in order and with duplicates, whose lowercased username is the lowercased
\* username of no record of following; followers [alice, bob] against following
\* [ALICE, carol] yields [bob].
C2_FansExact ==
    fans # None =>
        LET c == fans[1]
            A == heap[c.followers]
            B == heap[c.following]
            R == heap[c.ret]
        IN  /\ IsRestriction(R, A, Unmatched(A, B))
            /\ (Usernames(A) = <<"alice", "bob">> /\ Usernames(B) = <<"ALICE", "carol">>)
                   => Usernames(R) = <<"bob">>

\* find_fans has run on followers [alice, bob] and following [ALICE, carol]
C2_Witness ==
    /\ fans # None
    /\ Usernames(heap[fans[1].followers]) = <<"alice", "bob">>
    /\ Usernames(heap[fans[1].following]) = <<"ALICE", "carol">>
    /\ Usernames(heap[fans[1].ret]) = <<"bob">>

\* the lists of the caller are what they were, and a returned list is neither
CallsLeaveInputs ==
    /\ heap'[followers_records] = heap[followers_records]
    /\ heap'[following_records] = heap[following_records]
    /\ RetOf(non_followers') \notin InputLists
    /\ RetOf(fans') \notin InputLists

\* C3 as stated: the result of find_non_followers and the result of find_fans
\* are both subsequences of the second argument (following); no call changes
\* an input list, and the returned list is a new object.
C3_BothFilterSecondArgument ==
    /\ [](non_followers # None =>
            IsSubsequence(heap[non_followers[1].ret], heap[non_followers[1].following]))
    /\ [](fans # None =>
            IsSubsequence(heap[fans[1].ret], heap[fans[1].following]))
    /\ [][CallsLeaveInputs]_vars

\* C3 as amended: the result of find_non_followers is a subsequence of its
\* second argument (following) and the result of find_fans is a subsequence of
\* its first argument (followers); no call changes an input list, and the
\* returned list is a new object.
C3_EachFiltersItsOwnList ==
    /\ [](non_followers # None =>
            IsSubsequence(heap[non_followers[1].ret], heap[non_followers[1].following]))
    /\ [](fans # None =>
            IsSubsequence(heap[fans[1].ret], heap[fans[1].followers]))
    /\ [][CallsLeaveInputs]_vars

\* both functions have returned a proper, non-empty part of the list they filter
C3_Witness ==
    /\ non_followers # None
    /\ fans # None
    /\ non_followers[1].following = following_records
    /\ LET nf == heap[non_followers[1].ret]
           fs == heap[fans[1].ret]
       IN  /\ 0 < Len(nf) /\ Len(nf) < Len(heap[following_records])
           /\ 0 < Len(fs) /\ Len(fs) < Len(heap[followers_records])
           /\ ~IsSubsequence(fs, heap[following_records])

\* C10: find_fans(A, B) is find_non_followers(B, A), and no record of
\* find_fans(A, B) shares its lowercased username with a record of
\* find_non_followers(A, B).
C10_Duality ==
    (fans # None /\ non_followers # None) =>
        LET f == fans[1]
            n == non_followers[1]
            FR == heap[f.ret]
            NR == heap[n.ret]
        IN  /\ (n.followers = f.following /\ n.following = f.followers) => FR = NR
            /\ (n.followers = f.followers /\ n.following = f.following) =>
                   \A i \in 1..Len(FR) : \A j \in 1..Len(NR) :
                       str_lower(FR[i].username) # str_lower(NR[j].username)

\* find_fans(A, B) and find_non_followers(B, A) have both returned a non-empty
\* proper part of A
C10_Witness ==
    /\ fans # None
    /\ non_followers # None
    /\ non_followers[1].followers = fans[1].following
    /\ non_followers[1].following = fans[1].followers
    /\ Len(heap[fans[1].ret]) = 1
    /\ Len(heap[fans[1].followers]) = 2

-----------------------------------------------------------------------------
(* Relationship classifier: analyze_follow_status                          *)

\* the longest list given to the classifier
MaxRecords == 3

\* the records the classifier is run on: every flag value the record builder
\* can produce (YES, NO, empty, another uppercased text) under two usernames
ClassifierRecords ==
    {MkRecord("1", u, f) : u \in {"alice", "bob"}, f \in {"YES", "NO", "", "MAYBE"}}

\* the classifier treating every record that is not YES as not followed back
analyze_follow_status_NotYes(recs) ==
    [following_you   |-> recs,
     you_follow      |-> SelectSeq(recs, LAMBDA r : r.followed_by_you = "YES"),
     you_dont_follow |-> SelectSeq(recs, LAMBDA r : r.followed_by_you # "YES")]

\* the three lists analyze_follow_status builds
analyze_follow_status(recs) ==
    [following_you   |-> SelectSeq(recs, LAMBDA r : TRUE),
     you_follow      |-> SelectSeq(recs, LAMBDA r : r.followed_by_you = "YES"),
     you_dont_follow |-> SelectSeq(recs, LAMBDA r : r.followed_by_you = "NO")]

\* a caller's analyze_follow_status(records): three new lists, two of them
\* bound to two keys each of the returned dict
CallAnalyzeFollowStatus ==
    LET h0 == Collect(heap, {records})
        lists == analyze_follow_status(h0[records])
        following_you == FreshId(h0)
        h1 == (following_you :> lists.following_you) @@ h0
        you_follow == FreshId(h1)
        h2 == (you_follow :> lists.you_follow) @@ h1
        you_dont_follow == FreshId(h2)
    IN  /\ records # 0
        /\ buckets = None
        /\ heap' = (you_dont_follow :> lists.you_dont_follow) @@ h2
        /\ buckets' = Some([followers            |-> following_you,
                            you_follow_back      |-> you_follow,
                            you_dont_follow_back |-> you_dont_follow,
                            mutual               |-> you_follow,
                            fans                 |-> you_dont_follow])
        /\ UNCHANGED <<followers_records, following_records, non_followers, fans,
                       records, filename, file_meta, content, parsed>>

InitClassify ==
    /\ \E recs \in ListsOf(ClassifierRecords, MaxRecords) : heap = (1 :> recs)
    /\ records = 1
    /\ buckets = None
    /\ followers_records = 0
    /\ following_records = 0
    /\ non_followers = None
    /\ fans = None
    /\ filename = None
    /\ file_meta = None
    /\ content = None
    /\ parsed = None

NextClassify == CallAnalyzeFollowStatus

SpecClassify == InitClassify /\ [][NextClassify]_vars

\* the positions of xs whose followed_by_you is flag
Flagged(xs, flag) == {i \in 1..Len(xs) : xs[i].followed_by_you = flag}

\* the records of the list xs, as a set
Elements(xs) == {xs[i] : i \in 1..Len(xs)}

\* C8: followers is the whole input in order; you_follow_back and mutual are
\* both the input records with followed_by_you = "YES" in input order;
\* you_dont_follow_back and fans are both those with "NO"; the YES and NO
\* buckets share no record, and a record with any other followed_by_you is in
\* followers only.
C8_Buckets ==
    buckets # None =>
        LET b == buckets[1]
            In == heap[records]
        IN  /\ heap[b.followers] = In
            /\ IsRestriction(heap[b.you_follow_back], In, Flagged(In, "YES"))
            /\ heap[b.mutual] = heap[b.you_follow_back]
            /\ IsRestriction(heap[b.you_dont_follow_back], In, Flagged(In, "NO"))
            /\ heap[b.fans] = heap[b.you_dont_follow_back]
            /\ Elements(heap[b.you_follow_back]) \cap Elements(heap[b.fans]) = {}
            /\ \A i \in 1..Len(In) :
                   In[i].followed_by_you \notin {"YES", "NO"} =>
                       /\ In[i] \in Elements(heap[b.followers])
                       /\ In[i] \notin Elements(heap[b.mutual])
                       /\ In[i] \notin Elements(heap[b.fans])

\* the classifier has split a list holding a YES, a NO and an unrecognised flag
C8_Witness ==
    /\ buckets # None
    /\ [i \in 1..Len(heap[records]) |-> heap[records][i].followed_by_you]
           = <<"NO", "MAYBE", "YES">>
    /\ Len(heap[buckets[1].mutual]) = 1
    /\ Len(heap[buckets[1].fans]) = 1
    /\ Len(heap[buckets[1].followers]) = 3

-----------------------------------------------------------------------------
(* Filename metadata extractor: parse_filename                             *)

\* int(s) for a string of decimal digits, read left to right
RECURSIVE IntOfDigits(_, _)
IntOfDigits(s, acc) ==
    IF s = "" THEN acc
    ELSE IntOfDigits(Tail(s),
                     acc * 10 + (CHOOSE i \in 0..9 : CharAt(Digits, i + 1) = CharAt(s, 1)))

\* int(s) raises ValueError for a string that is no decimal literal
IntRaises(s) == s = "" \/ \E i \in 1..Len(s) : ~IsDigit(CharAt(s, i))

int(s) == IntOfDigits(s, 0)

\* the literal `lit` (given in lower case) matches s at position p under
\* re.IGNORECASE
LiteralAt(s, p, lit) ==
    /\ p + Len(lit) - 1 <= Len(s)
    /\ str_lower(SubSeq(s, p, p + Len(lit) - 1)) = lit

\* the lengths \d+ can take at position p: 1 up to the run of digits there
DigitLengths(s, p) ==
    {d \in 1..(Len(s) - p + 1) : \A i \in p..(p + d - 1) : IsDigit(CharAt(s, i))}

\* the alternatives of (followers|following), in the order they are tried
TypeAlternatives == <<"followers", "following">>

\* (followers|following)\.csv at position p: the alternatives that match there
\* and are followed by .csv
TypeMatches(s, p) ==
    {k \in 1..Len(TypeAlternatives) :
        /\ LiteralAt(s, p, TypeAlternatives[k])
        /\ LiteralAt(s, p + Len(TypeAlternatives[k]), ".csv")}

\* _(\d+)_(followers|following)\.csv at position p: the digit lengths with
\* which the rest matches
TailMatches(s, p) ==
    {d \in DigitLengths(s, p + 1) :
        /\ LiteralAt(s, p, "_")
        /\ LiteralAt(s, p + 1 + d, "_")
        /\ TypeMatches(s, p + 2 + d) # {}}

\* the lengths (.+?) can take at position p: `.` matches all but a newline
HandleLengths(s, p) ==
    {h \in 1..(Len(s) - p + 1) : \A i \in p..(p + h - 1) : CharAt(s, i) # "\n"}

Min(S) == CHOOSE x \in S : \A y \in S : x <= y
Max(S) == CHOOSE x \in S : \A y \in S : x >= y

\* the groups of a match of the pattern whose handle has length h: \d+ is
\* greedy, the alternatives are tried in order
GroupsFor(s, h) ==
    LET p == Len("igfollow_") + 1
        d == Max(TailMatches(s, p + h))
        q == p + h + 2 + d
        k == Min(TypeMatches(s, q))
    IN  <<SubSeq(s, p, p + h - 1),
          SubSeq(s, p + h + 1, p + h + d),
          SubSeq(s, q, q + Len(TypeAlternatives[k]) - 1)>>

\* the handle lengths with which the whole pattern matches at the start of s
MatchingHandles(s) ==
    IF LiteralAt(s, 1, "igfollow_")
    THEN {h \in HandleLengths(s, Len("igfollow_") + 1) :
             TailMatches(s, Len("igfollow_") + 1 + h) # {}}
    ELSE {}

\* re.match(r'IGFollow_(.+?)_(\d+)_(followers|following)\.csv', s,
\* re.IGNORECASE): None, or the three groups; (.+?) is lazy
re_match(s) ==
    IF MatchingHandles(s) = {} THEN None
    ELSE Some(GroupsFor(s, Min(MatchingHandles(s))))

\* parse_filename without the assignment of file_type from the third group
parse_filename_NoOverride(name) ==
    LET filename_lower == str_lower(name)
        detected == IF Contains(filename_lower, "following") THEN "following"
                    ELSE "followers"
        igfollow_match == re_match(name)
    IN  IF igfollow_match = None
        THEN Return([ig_username |-> None, count |-> None, file_type |-> detected])
        ELSE Return([ig_username |-> Some(igfollow_match[1][1]),
                     count       |-> Some(int(igfollow_match[1][2])),
                     file_type   |-> detected])

parse_filename(name) ==
    LET filename_lower == str_lower(name)
        detected == IF Contains(filename_lower, "following") THEN "following"
                    ELSE IF Contains(filename_lower, "follower") THEN "followers"
                    ELSE "followers"
        igfollow_match == re_match(name)
    IN  IF igfollow_match = None
        THEN Return([ig_username |-> None, count |-> None, file_type |-> detected])
        ELSE IF IntRaises(igfollow_match[1][2])
        THEN Raise("ValueError")
        ELSE Return([ig_username |-> Some(igfollow_match[1][1]),
                     count       |-> Some(int(igfollow_match[1][2])),
                     file_type   |-> str_lower(igfollow_match[1][3])])

\* a caller's parse_filename(filename)
CallParseFilename ==
    /\ filename # None
    /\ file_meta = None
    /\ content = None
    /\ file_meta' = Some(parse_filename(filename[1]))
    /\ UNCHANGED <<heap, followers_records, following_records, non_followers,
                   fans, records, buckets, filename, content, parsed>>

\* the filenames parse_filename is run on: the parts of a structured name,
\* each in a well-formed and in malformed variants, and names without structure
Filenames ==
    {a \o h \o c \o t \o e :
        a \in {"IGFollow_", "igfollow_", "IGFollow", "x_IGFollow_"},
        h \in {"jane_doe", "rajj__singhh", "following", "x_1", "a\nb"},
        c \in {"_42_", "_007_", "_", "_4x_"},
        t \in {"followers", "following", "FOLLOWING", "follower"},
        e \in {".csv", ".CSV", "xcsv", ".csv_2_following.csv"}}
    \cup {"followers_1.csv", "following.csv", "FOLLOWING (1).csv", "export.csv", ""}

InitFilename ==
    /\ \E name \in Filenames : filename = Some(name)
    /\ file_meta = None
    /\ heap = <<>>
    /\ followers_records = 0
    /\ following_records = 0
    /\ non_followers = None
    /\ fans = None
    /\ records = 0
    /\ buckets = None
    /\ content = None
    /\ parsed = None

NextFilename == CallParseFilename

SpecFilename == InitFilename /\ [][NextFilename]_vars

\* the decimal value of a string of digits, last digit first
RECURSIVE DecimalValue(_)
DecimalValue(ds) ==
    IF ds = "" THEN 0
    ELSE 10 * DecimalValue(SubSeq(ds, 1, Len(ds) - 1))
         + Cardinality({i \in 2..Len(Digits) :
                           \E j \in i..Len(Digits) :
                               CharAt(Digits, j) = CharAt(ds, Len(ds))})

\* name begins, case-insensitively, with IGFollow_<handle>_<digits>_<keyword>.csv
\* where the handle has h characters, none a newline, and there are d digits;
\* low is name in lower case
HasShape(name, low, h, d, keyword) ==
    /\ SubSeq(low, 1, 9) = "igfollow_"
    /\ \A i \in 10..(9 + h) : CharAt(name, i) # "\n"
    /\ CharAt(name, 10 + h) = "_"
    /\ \A i \in (11 + h)..(10 + h + d) : IsDigit(CharAt(name, i))
    /\ CharAt(name, 11 + h + d) = "_"
    /\ SubSeq(low, 12 + h + d, 15 + h + d + Len(keyword)) = keyword \o ".csv"

\* the ways name has the shape
Shapes(name) ==
    LET low == str_lower(name)
    IN  {sh \in (1..Len(name)) \X (1..Len(name)) \X {"followers", "following"} :
            /\ 15 + sh[1] + sh[2] + Len(sh[3]) <= Len(name)
            /\ HasShape(name, low, sh[1], sh[2], sh[3])}

-----------------------------------------------------------------------------
(* CSV parser and record builder: parse_instagram_csv                      *)
(*                                                                         *)
(* The content is modelled after tokenizing: a document is its header      *)
(* fields, its rows of fields, and whether a quoted field is left open at  *)
(* the end of the text. A bytes content is the UTF-8 encoding of such a    *)
(* document, with or without a byte-order mark, or an invalid byte string. *)
(* pd.read_csv is modelled with its default arguments (C engine).          *)

\* content.decode('utf-8-sig'): the text without the mark, or an error
decode_utf8_sig(c) ==
    IF c.valid_utf8 THEN Return(c.doc) ELSE Raise("UnicodeDecodeError")

\* the texts read_csv reads as a missing value (its default na_values)
NaValues ==
    {"", "#N/A", "#N/A N/A", "#NA", "-1.#IND", "-1.#QNAN", "-NaN", "-nan",
     "1.#IND", "1.#QNAN", "<NA>", "N/A", "NA", "NULL", "NaN", "None", "n/a",
     "nan", "null"}

\* the texts read_csv reads as booleans (its default true and false values)
TrueValues == {"True", "TRUE", "true"}
FalseValues == {"False", "FALSE", "false"}

\* a text read_csv reads as an integer (unsigned; the model has no signs)
IsIntText(c) == ~IntRaises(c)

\* str(n) for a natural number n
RECURSIVE FormatInt(_)
FormatInt(n) ==
    IF n < 10 THEN CharAt(Digits, n + 1)
    ELSE FormatInt(n \div 10) \o CharAt(Digits, (n % 10) + 1)

\* the dtype read_csv infers for a column from the texts of its cells (the
\* model has no text that reads as a float)
InferDtype(texts) ==
    LET present == {t \in texts : t \notin NaValues}
        missing == texts \cap NaValues # {}
    IN  IF present = {} THEN "float64"
        ELSE IF \A t \in present : IsIntText(t)
             THEN (IF missing THEN "float64" ELSE "int64")
        ELSE IF present \subseteq (TrueValues \cup FalseValues)
             THEN (IF missing THEN "object of bool" ELSE "bool")
        ELSE "object of str"

\* str() of a cell of a column of the dtype after fillna(''): the cell read
\* from text t
CellStr(dtype, t) ==
    IF t \in NaValues THEN ""
    ELSE IF dtype = "int64" THEN FormatInt(int(t))
    ELSE IF dtype = "float64" THEN FormatInt(int(t)) \o ".0"
    ELSE IF dtype \in {"bool", "object of bool"}
         THEN (IF t \in TrueValues THEN "True" ELSE "False")
    ELSE t

\* the rows read_csv keeps: a line holding nothing is skipped
DataRows(doc) == SelectSeq(doc.rows, LAMBDA r : r # <<"">>)

\* the number of fields read_csv expects in a row: the header's, or the first
\* data row's when that is longer (its leading fields become the index)
ExpectedFields(doc) ==
    IF DataRows(doc) = <<>> THEN Len(doc.header)
    ELSE Max({Len(doc.header), Len(DataRows(doc)[1])})

\* the frame read_csv builds, cells as the strings str() gives after fillna('')
FrameOf(doc) ==
    LET data == DataRows(doc)
        lead == ExpectedFields(doc) - Len(doc.header)
        text(i, j) == IF lead + j <= Len(data[i]) THEN data[i][lead + j] ELSE ""
        texts(j) == {text(i, j) : i \in 1..Len(data)}
    IN  [columns |-> doc.header,
         cells   |-> [i \in 1..Len(data) |->
                        [j \in 1..Len(doc.header) |->
                            CellStr(InferDtype(texts(j)), text(i, j))]]]

\* read_csv with on_bad_lines='skip': a row with too many fields is dropped
read_csv_SkipBadLines(doc) ==
    IF doc.open_quote THEN Raise("ParserError")
    ELSE IF doc.header = <<>> THEN Raise("EmptyDataError")
    ELSE Return(FrameOf([doc EXCEPT !.rows =
                    SelectSeq(doc.rows, LAMBDA r : Len(r) <= ExpectedFields(doc))]))

\* pd.read_csv(io.StringIO(content))
read_csv(doc) ==
    IF doc.open_quote THEN Raise("ParserError")
    ELSE IF doc.header = <<>> THEN Raise("EmptyDataError")
    ELSE IF \E i \in 2..Len(DataRows(doc)) : Len(DataRows(doc)[i]) > ExpectedFields(doc)
    THEN Raise("ParserError")
    ELSE Return(FrameOf(doc))

\* str.strip() on the blanks of the model
RECURSIVE str_strip(_)
str_strip(s) ==
    IF s = "" THEN ""
    ELSE IF CharAt(s, 1) \in {" ", "\t"} THEN str_strip(Tail(s))
    ELSE IF CharAt(s, Len(s)) \in {" ", "\t"} THEN str_strip(SubSeq(s, 1, Len(s) - 1))
    ELSE s

\* str.replace(' ', '_')
RECURSIVE ReplaceSpaces(_)
ReplaceSpaces(s) ==
    IF s = "" THEN ""
    ELSE (IF CharAt(s, 1) = " " THEN "_" ELSE CharAt(s, 1)) \o ReplaceSpaces(Tail(s))

\* df.columns.str.strip().str.lower().str.replace(' ', '_')
NormalizeColumn(c) == ReplaceSpaces(str_lower(str_strip(c)))

\* column_map, in the order of its keys
column_map ==
    <<[standard |-> "user_id",         variants |-> <<"user_id", "userid", "id">>],
      [standard |-> "username",        variants |-> <<"username", "user_name", "handle">>],
      [standard |-> "fullname",        variants |-> <<"fullname", "full_name", "name", "display_name">>],
      [standard |-> "followed_by_you", variants |-> <<"followed_by_you", "following", "you_follow">>],
      [standard |-> "is_verified",     variants |-> <<"is_verified", "verified">>],
      [standard |-> "profile_url",     variants |-> <<"profile_url", "url", "profile">>],
      [standard |-> "avatar_url",      variants |-> <<"avatar_url", "avatar", "picture">>]>>

\* rename_map: for each standard name, the first of its variants found among
\* the columns, renamed to it
RenameMap(columns) ==
    {<<e.variants[Min({k \in 1..Len(e.variants) : e.variants[k] \in Elements(columns)})],
       e.standard>> :
        e \in {x \in Elements(column_map) :
                  Elements(x.variants) \cap Elements(columns) # {}}}

\* df.rename(columns=rename_map)
Rename(columns) ==
    LET rename_map == RenameMap(columns)
    IN  [j \in 1..Len(columns) |->
            IF \E m \in rename_map : m[1] = columns[j]
            THEN (CHOOSE m \in rename_map : m[1] = columns[j])[2]
            ELSE columns[j]]

\* str(row.get(name, ''))
RowGet(columns, row, name) ==
    IF name \in Elements(columns)
    THEN row[CHOOSE j \in 1..Len(columns) : columns[j] = name]
    ELSE ""

\* the record built without .upper() on the two flags
BuildRecord_NoUpper(columns, row) ==
    [user_id         |-> RowGet(columns, row, "user_id"),
     username        |-> RowGet(columns, row, "username"),
     fullname        |-> RowGet(columns, row, "fullname"),
     followed_by_you |-> RowGet(columns, row, "followed_by_you"),
     is_verified     |-> RowGet(columns, row, "is_verified"),
     profile_url     |-> RowGet(columns, row, "profile_url")]

\* the record built from one row of the frame
BuildRecord(columns, row) ==
    [user_id         |-> RowGet(columns, row, "user_id"),
     username        |-> RowGet(columns, row, "username"),
     fullname        |-> RowGet(columns, row, "fullname"),
     followed_by_you |-> str_upper(RowGet(columns, row, "followed_by_you")),
     is_verified     |-> str_upper(RowGet(columns, row, "is_verified")),
     profile_url     |-> RowGet(columns, row, "profile_url")]

\* the counts with every record that is not YES counted as not following back
Counts_NotYes(recs) ==
    [total              |-> Len(recs),
     following_back     |-> Len(SelectSeq(recs, LAMBDA r : r.followed_by_you = "YES")),
     not_following_back |-> Len(SelectSeq(recs, LAMBDA r : r.followed_by_you # "YES")),
     verified           |-> Len(SelectSeq(recs, LAMBDA r : r.is_verified = "YES"))]

\* total, following_count, not_following_count, verified_count
Counts(recs) ==
    [total              |-> Len(recs),
     following_back     |-> Len(SelectSeq(recs, LAMBDA r : r.followed_by_you = "YES")),
     not_following_back |-> Len(SelectSeq(recs, LAMBDA r : r.followed_by_you = "NO")),
     verified           |-> Len(SelectSeq(recs, LAMBDA r : r.is_verified = "YES"))]

\* the metadata dict: the counts, and with a filename the two keys taken from
\* parse_filename's dict (file is None when the keys are not set)
Metadata(recs, file_dict) ==
    [total              |-> Counts(recs).total,
     following_back     |-> Counts(recs).following_back,
     not_following_back |-> Counts(recs).not_following_back,
     verified           |-> Counts(recs).verified,
     file               |-> IF file_dict = None THEN None
                            ELSE Some([ig_username   |-> file_dict[1].ig_username,
                                       detected_type |-> file_dict[1].file_type])]

\* parse_instagram_csv(content, filename): the pair returned, or the
\* exception that leaves it
parse_instagram_csv(c, name) ==
    LET decoded == IF c.kind = "bytes" THEN decode_utf8_sig(c) ELSE Return(c.doc)
    IN  IF decoded.raised # None THEN decoded
        ELSE LET read == read_csv(decoded.value[1])
             IN  IF read.raised # None THEN read
                 ELSE LET df == read.value[1]
                          columns == Rename([j \in 1..Len(df.columns) |->
                                                NormalizeColumn(df.columns[j])])
                          recs == [i \in 1..Len(df.cells) |->
                                      BuildRecord(columns, df.cells[i])]
                          file_meta_call == IF name # None /\ name # Some("")
                                            THEN Some(parse_filename(name[1]))
                                            ELSE None
                      IN  IF file_meta_call # None /\ file_meta_call[1].raised # None
                          THEN file_meta_call[1]
                          ELSE Return([records  |-> recs,
                                       metadata |-> Metadata(recs,
                                           IF file_meta_call = None THEN None
                                           ELSE file_meta_call[1].value)])

\* a caller's parse_instagram_csv(content, filename)
CallParseInstagramCsv ==
    /\ content # None
    /\ parsed = None
    /\ parsed' = Some(parse_instagram_csv(content[1], filename))
    /\ UNCHANGED <<heap, followers_records, following_records, non_followers,
                   fans, records, buckets, filename, file_meta, content>>

\* the most rows of a table with several columns
MaxRows == 2

Document(header, rows, open_quote) ==
    [header |-> header, rows |-> rows, open_quote |-> open_quote]

StrContent(doc) == [kind |-> "str", bom |-> FALSE, valid_utf8 |-> TRUE, doc |-> doc]

BytesContent(bom, valid, doc) ==
    [kind |-> "bytes", bom |-> bom, valid_utf8 |-> valid, doc |-> doc]

\* every accepted spelling of every standard name
Variants ==
    UNION {Elements(column_map[e].variants) : e \in 1..Len(column_map)}

\* the texts of a cell: a name, a number written with leading zeros, flags in
\* several cases, an unrecognised flag, a boolean, and missing values
CellTexts == {"alice", "007", "yes", "Yes", "NO", "maybe", "true", "", "NA"}

\* one-column, one-row tables: every accepted spelling, spellings that need
\* normalizing, and an unknown header (the cell is not empty: a line holding
\* nothing is no row)
OneCellDocuments ==
    {Document(<<h>>, <<<<t>>>>, FALSE) :
        h \in Variants \cup {" User Name ", "Full Name", "VERIFIED", "nickname"},
        t \in CellTexts \ {""}}

\* the headers of the tables with two columns; the names of a header stay
\* distinct when normalized (two columns of one name are outside the model)
Headers ==
    {<<"Username", "Followed By You">>, <<"handle", "verified">>,
     <<"you_follow", "following">>, <<"foo", "bar">>}

\* the rows of the tables with two columns: full rows, a short row, a long
\* row and an empty line
Rows ==
    {<<u, f>> : u \in {"alice", "007"}, f \in {"yes", "NO", "maybe", ""}}
    \cup {<<"bob">>, <<"carol", "no", "x">>, <<"">>}

TwoColumnDocuments ==
    {Document(h, rows, FALSE) : h \in Headers, rows \in ListsOf(Rows, MaxRows)}

\* a few documents in every encoding, with and without an open quote, and an
\* empty text
EncodedDocuments ==
    {Document(h, rows, q) :
        h \in {<<"username", "following">>},
        rows \in {<<>>, <<<<"alice", "Yes">>, <<"bob", "no", "x">>>>,
                  <<<<"alice", "Yes">>, <<"bob">>>>},
        q \in BOOLEAN}
    \cup {Document(<<>>, <<>>, FALSE)}

\* the filenames given with a content
ContentFilenames ==
    {None, Some(""), Some("IGFollow_jane_doe_42_following.csv"),
     Some("followers_1.csv")}

\* the calls of parse_instagram_csv the model makes
ParseInputs ==
    {[content |-> StrContent(d), filename |-> None] :
        d \in OneCellDocuments \cup TwoColumnDocuments}
    \cup {[content |-> c, filename |-> n] :
            c \in {StrContent(d) : d \in EncodedDocuments}
                  \cup {BytesContent(bom, v, d) :
                            bom \in BOOLEAN, v \in BOOLEAN, d \in EncodedDocuments},
            n \in ContentFilenames}

InitParse ==
    /\ \E in \in ParseInputs :
           /\ content = Some(in.content)
           /\ filename = in.filename
    /\ parsed = None
    /\ file_meta = None
    /\ heap = <<>>
    /\ followers_records = 0
    /\ following_records = 0
    /\ non_followers = None
    /\ fans = None
    /\ records = 0
    /\ buckets = None

NextParse == CallParseInstagramCsv

SpecParse == InitParse /\ [][NextParse]_vars

-----------------------------------------------------------------------------
(* Claims about parse_instagram_csv                                        *)

\* the call has returned its pair
Returned == parsed # None /\ parsed[1].raised = None

ReturnedRecords == parsed[1].value[1].records
ReturnedMetadata == parsed[1].value[1].metadata

\* the counts of the metadata are those of the records
CountsAreOfRecords ==
    /\ ReturnedMetadata.total = Len(ReturnedRecords)
    /\ ReturnedMetadata.following_back = Cardinality(Flagged(ReturnedRecords, "YES"))
    /\ ReturnedMetadata.not_following_back = Cardinality(Flagged(ReturnedRecords, "NO"))

\* C4 as stated: following_back + not_following_back <= total, with equality
\* if and only if no record has an empty followed_by_you.
C4_EqualityIffNoEmptyFlag ==
    Returned =>
        LET m == ReturnedMetadata
        IN  /\ CountsAreOfRecords
            /\ m.following_back + m.not_following_back <= m.total
            /\ (m.following_back + m.not_following_back = m.total)
                   <=> (\A i \in 1..Len(ReturnedRecords) :
                           ReturnedRecords[i].followed_by_you # "")

\* C4 as amended: following_back + not_following_back <= total, with equality
\* if and only if every record's followed_by_you is "YES" or "NO".
C4_EqualityIffAllYesOrNo ==
    Returned =>
        LET m == ReturnedMetadata
        IN  /\ CountsAreOfRecords
            /\ m.following_back + m.not_following_back <= m.total
            /\ (m.following_back + m.not_following_back = m.total)
                   <=> (\A i \in 1..Len(ReturnedRecords) :
                           ReturnedRecords[i].followed_by_you \in {"YES", "NO"})

\* a batch with a YES record and a record of an unrecognised flag: the counts
\* fall short of the total with no flag empty
C4_Witness ==
    /\ Returned
    /\ [i \in 1..Len(ReturnedRecords) |-> ReturnedRecords[i].followed_by_you]
           = <<"YES", "MAYBE">>
    /\ ReturnedMetadata.total = 2
    /\ ReturnedMetadata.following_back = 1
    /\ ReturnedMetadata.not_following_back = 0

RecordFields ==
    {"user_id", "username", "fullname", "followed_by_you", "is_verified", "profile_url"}

\* every record has the six fields, each a string
SixStringFields ==
    \A i \in 1..Len(ReturnedRecords) :
        /\ DOMAIN ReturnedRecords[i] = RecordFields
        /\ \A f \in RecordFields : ReturnedRecords[i][f] \in STRING

\* s has no lower-case letter
NoLowerCase(s) ==
    \A i \in 1..Len(s) : \A k \in 1..Len(LowerAlphabet) :
        CharAt(s, i) # CharAt(LowerAlphabet, k)

\* C5 as stated: every record has the six fields with string values, and its
\* followed_by_you and is_verified are each "YES", "NO" or empty.
C5_FlagsAreYesNoOrEmpty ==
    Returned =>
        /\ SixStringFields
        /\ \A i \in 1..Len(ReturnedRecords) :
               /\ ReturnedRecords[i].followed_by_you \in {"YES", "NO", ""}
               /\ ReturnedRecords[i].is_verified \in {"YES", "NO", ""}

\* C5 as amended: every record has the six fields with string values, and its
\* followed_by_you and is_verified are upper-cased texts (no lower-case
\* letter), "YES", "NO" and empty among them.
C5_FlagsAreUpperCased ==
    Returned =>
        /\ SixStringFields
        /\ \A i \in 1..Len(ReturnedRecords) :
               /\ NoLowerCase(ReturnedRecords[i].followed_by_you)
               /\ NoLowerCase(ReturnedRecords[i].is_verified)

\* a record built from the cells yes and maybe of two flag columns
C5_Witness ==
    /\ Returned
    /\ content[1].doc.header = <<"you_follow", "following">>
    /\ content[1].doc.rows = <<<<"alice", "yes">>, <<"007", "maybe">>>>
    /\ ReturnedRecords[1].followed_by_you = "YES"
    /\ ReturnedRecords[2].followed_by_you = "MAYBE"

\* the standard name the spelling v is accepted for
StandardOf(v) ==
    (CHOOSE e \in Elements(column_map) : v \in Elements(e.variants)).standard

\* C6: for every standard name of the column map and every accepted spelling
\* of it, a one-row table whose only header is that spelling yields one record
\* that carries the row's value under the standard name (upper-cased for
\* followed_by_you and is_verified), every other field empty.
C6_HeaderRoundTrip ==
    (/\ parsed # None
     /\ content[1].doc \in OneCellDocuments
     /\ content[1].doc.header[1] \in Variants) =>
        LET f == StandardOf(content[1].doc.header[1])
            t == content[1].doc.rows[1][1]
        IN  /\ Returned
            /\ Len(ReturnedRecords) = 1
            /\ f \in DOMAIN ReturnedRecords[1]
            /\ ReturnedRecords[1][f] =
                   (IF f \in {"followed_by_you", "is_verified"} THEN str_upper(t) ELSE t)
            /\ \A g \in RecordFields \ {f} : ReturnedRecords[1][g] = ""

\* the content is bytes that are no UTF-8 text
Undecodable(c) == c.kind = "bytes" /\ ~c.valid_utf8

\* the lines of the document that hold something
FilledRows(doc) == SelectSeq(doc.rows, LAMBDA r : r # <<"">>)

\* the document is no table as the claim reads it: a quote left open, no
\* header, or a row whose number of fields is not the header's
MalformedAsStated(doc) ==
    \/ doc.open_quote
    \/ doc.header = <<>>
    \/ \E i \in 1..Len(FilledRows(doc)) : Len(FilledRows(doc)[i]) # Len(doc.header)

\* the document is no table for the parser: a quote left open, no header, or
\* a row after the first with more fields than the header and the first row
MalformedForParser(doc) ==
    \/ doc.open_quote
    \/ doc.header = <<>>
    \/ \E i \in 2..Len(FilledRows(doc)) :
           /\ Len(FilledRows(doc)[i]) > Len(doc.header)
           /\ Len(FilledRows(doc)[i]) > Len(FilledRows(doc)[1])

\* the call ended with an exception and no pair, or with a pair and no exception
RaisedOrReturned ==
    /\ parsed[1].raised # None => parsed[1].value = None
    /\ parsed[1].raised = None =>
           /\ parsed[1].value # None
           /\ DOMAIN parsed[1].value[1] = {"records", "metadata"}

=============================================================================
